---- MODULE Spec2Model ----
(***************************************************************************)
(* LiveStreams resource of the Mux node SDK                                *)
(* (src/src/video/resources/liveStreams.ts).                               *)
(*                                                                         *)
(* Every method validates its arguments, builds a path from PATH and the   *)
(* identifiers, hands at most one request to the shared transport          *)
(* (this.http) and returns a promise.  The model keeps JavaScript values   *)
(* explicit (undefined, null, strings, objects), builds paths by string    *)
(* concatenation, records every request the transport receives and lets    *)
(* the transport settle pending requests in any order.                     *)
(***************************************************************************)
EXTENDS Integers, Sequences, FiniteSets

VARIABLES
  calls,     \* slot -> the call made there and the state of its promise
  requests   \* the requests the transport has received, in order

vars == <<calls, requests>>

(***************************************************************************)
(* JavaScript values                                                       *)
(***************************************************************************)
Undefined == [t |-> "undefined"]
Null == [t |-> "null"]
Str(s) == [t |-> "string", s |-> s]
\* A parameters object; url is the value of its 'url' property.
Obj(url) == [t |-> "object", url |-> url]
\* new Error(message)
Error(message) == [t |-> "error", message |-> message]

\* The operand test of `!x`: undefined, null and '' are falsy.
Truthy(v) ==
  CASE v.t = "string" -> v.s # ""
    [] v.t = "object" -> TRUE
    [] OTHER -> FALSE

\* The conversion a template literal applies to `${v}`.
TemplateString(v) ==
  CASE v.t = "string" -> v.s
    [] v.t = "undefined" -> "undefined"
    [] v.t = "null" -> "null"
    [] OTHER -> "[object Object]"

\* params.url
UrlOf(params) == IF params.t = "object" THEN params.url ELSE Undefined

(***************************************************************************)
(* What one method invocation does before it returns: the requests it      *)
(* hands to the transport, in order, and the promise it returns.           *)
(*   ret.kind = "transport": the promise of the ret.of-th request sent     *)
(*   ret.kind = "rejected" : Promise.reject(ret.error)                     *)
(*   ret.kind = "thrown"   : throw ret.error                               *)
(***************************************************************************)
HttpCall(verb, path, arg) ==
  [sent |-> <<[verb |-> verb, path |-> path, arg |-> arg]>>,
   ret |-> [kind |-> "transport", of |-> 1, error |-> Undefined]]

PromiseReject(message) ==
  [sent |-> <<>>, ret |-> [kind |-> "rejected", of |-> 0, error |-> Error(message)]]

Throw(message) ==
  [sent |-> <<>>, ret |-> [kind |-> "thrown", of |-> 0, error |-> Error(message)]]

(***************************************************************************)
(* Paths                                                                   *)
(***************************************************************************)
PATH == "/video/v1/live-streams"

\* Faulty variant: the base is taken from the path of the last request sent
\* instead of the fixed PATH.
buildBasePathFromLast(liveStreamId) ==
  (IF requests = <<>> THEN PATH ELSE requests[Len(requests)].path)
    \o "/" \o TemplateString(liveStreamId)

buildBasePath(liveStreamId) == PATH \o "/" \o TemplateString(liveStreamId)

(***************************************************************************)
(* The methods of LiveStreams                                              *)
(***************************************************************************)
create(params) == HttpCall("POST", PATH, params)

update(liveStreamId, params) ==
  IF ~Truthy(liveStreamId) \/ ~Truthy(params)
  THEN Throw("assetId and params are required.")
  ELSE HttpCall("PATCH", buildBasePath(liveStreamId), params)

\* Faulty variant: the identifier check is left out.
delUnchecked(liveStreamId) ==
  HttpCall("DELETE", buildBasePath(liveStreamId), Undefined)

del(liveStreamId) ==
  IF ~Truthy(liveStreamId)
  THEN PromiseReject("A live stream ID is required to delete a live stream")
  ELSE HttpCall("DELETE", buildBasePath(liveStreamId), Undefined)

get(liveStreamId) ==
  IF ~Truthy(liveStreamId)
  THEN PromiseReject("A live stream ID is required to get a live stream")
  ELSE HttpCall("GET", buildBasePath(liveStreamId), Undefined)

\* this.http.get(PATH, { params })
list(params) == HttpCall("GET", PATH, [t |-> "object", params |-> params])

signalComplete(liveStreamId) ==
  IF ~Truthy(liveStreamId)
  THEN PromiseReject("A live stream ID is required to signal a stream is complete")
  ELSE HttpCall("PUT", buildBasePath(liveStreamId) \o "/complete", Undefined)

resetStreamKey(liveStreamId) ==
  IF ~Truthy(liveStreamId)
  THEN PromiseReject("A live stream ID is required to reset a live stream key")
  ELSE HttpCall("POST", buildBasePath(liveStreamId) \o "/reset-stream-key", Undefined)

createPlaybackId(liveStreamId, params) ==
  IF ~Truthy(liveStreamId)
  THEN PromiseReject("A live stream ID is required to create a live stream playback ID")
  ELSE IF ~Truthy(params)
  THEN PromiseReject("A playback policy is required to create a live stream playback ID")
  ELSE HttpCall("POST", buildBasePath(liveStreamId) \o "/playback-ids", params)

\* Faulty variant: the playback id is checked before the live stream id.
deletePlaybackIdSwapped(liveStreamId, pbId) ==
  IF ~Truthy(pbId)
  THEN PromiseReject("A live stream playback ID is required to delete a live stream playback ID")
  ELSE IF ~Truthy(liveStreamId)
  THEN PromiseReject("A live stream ID is required to delete a live stream playback ID")
  ELSE HttpCall("DELETE",
                buildBasePath(liveStreamId) \o "/playback-ids/" \o TemplateString(pbId),
                Undefined)

deletePlaybackId(liveStreamId, pbId) ==
  IF ~Truthy(liveStreamId)
  THEN PromiseReject("A live stream ID is required to delete a live stream playback ID")
  ELSE IF ~Truthy(pbId)
  THEN PromiseReject("A live stream playback ID is required to delete a live stream playback ID")
  ELSE HttpCall("DELETE",
                buildBasePath(liveStreamId) \o "/playback-ids/" \o TemplateString(pbId),
                Undefined)

playbackId(liveStreamId, pbId) ==
  IF ~Truthy(liveStreamId)
  THEN PromiseReject("A live stream ID is required")
  ELSE IF ~Truthy(pbId)
  THEN PromiseReject("A playback ID is required")
  ELSE HttpCall("GET",
                buildBasePath(liveStreamId) \o "/playback-ids/" \o TemplateString(pbId),
                Undefined)

createSimulcastTarget(liveStreamId, params) ==
  IF ~Truthy(liveStreamId)
  THEN PromiseReject("A live stream ID is required to create a simulcast target")
  ELSE IF ~(Truthy(params) /\ Truthy(UrlOf(params)))
  THEN PromiseReject("A url is required to create a simulcast target")
  ELSE HttpCall("POST", buildBasePath(liveStreamId) \o "/simulcast-targets", params)

\* Faulty variant: the path segment of the playback-id endpoint is used.
getSimulcastTargetPlaybackPath(liveStreamId, simulcastTargetId) ==
  IF ~Truthy(liveStreamId)
  THEN PromiseReject("A live stream ID is required to get a simulcast target")
  ELSE IF ~Truthy(simulcastTargetId)
  THEN PromiseReject("A simulcast target ID is required to get a simulcast target")
  ELSE HttpCall("GET",
                buildBasePath(liveStreamId) \o "/playback-ids/"
                  \o TemplateString(simulcastTargetId),
                Undefined)

getSimulcastTarget(liveStreamId, simulcastTargetId) ==
  IF ~Truthy(liveStreamId)
  THEN PromiseReject("A live stream ID is required to get a simulcast target")
  ELSE IF ~Truthy(simulcastTargetId)
  THEN PromiseReject("A simulcast target ID is required to get a simulcast target")
  ELSE HttpCall("GET",
                buildBasePath(liveStreamId) \o "/simulcast-targets/"
                  \o TemplateString(simulcastTargetId),
                Undefined)

deleteSimulcastTarget(liveStreamId, simulcastTargetId) ==
  IF ~Truthy(liveStreamId)
  THEN PromiseReject("A live stream ID is required to delete a simulcast target")
  ELSE IF ~Truthy(simulcastTargetId)
  THEN PromiseReject("A simulcast target ID is required to delete a simulcast target")
  ELSE HttpCall("DELETE",
                buildBasePath(liveStreamId) \o "/simulcast-targets/"
                  \o TemplateString(simulcastTargetId),
                Undefined)

updateEmbeddedSubtitles(liveStreamId, params) ==
  IF ~Truthy(liveStreamId) \/ ~Truthy(params)
  THEN Throw("liveStreamId and params are required.")
  ELSE HttpCall("PUT", buildBasePath(liveStreamId) \o "/embedded-subtitles", params)

\* Faulty variant: the request goes to the enable endpoint.
disableToEnablePath(liveStreamId) ==
  IF ~Truthy(liveStreamId)
  THEN PromiseReject("A live stream ID is required to disable a live stream")
  ELSE HttpCall("PUT", buildBasePath(liveStreamId) \o "/enable", Undefined)

disable(liveStreamId) ==
  IF ~Truthy(liveStreamId)
  THEN PromiseReject("A live stream ID is required to disable a live stream")
  ELSE HttpCall("PUT", buildBasePath(liveStreamId) \o "/disable", Undefined)

\* Faulty variant: the identifier check is inverted.
enableInverted(liveStreamId) ==
  IF Truthy(liveStreamId)
  THEN PromiseReject("A live stream ID is required to enable a live stream")
  ELSE HttpCall("PUT", buildBasePath(liveStreamId) \o "/enable", Undefined)

enable(liveStreamId) ==
  IF ~Truthy(liveStreamId)
  THEN PromiseReject("A live stream ID is required to enable a live stream")
  ELSE HttpCall("PUT", buildBasePath(liveStreamId) \o "/enable", Undefined)

(***************************************************************************)
(* Calling a method by name                                                *)
(***************************************************************************)
OneIdOps == {"del", "get", "signalComplete", "resetStreamKey", "disable", "enable"}
TwoIdOps == {"deletePlaybackId", "playbackId", "getSimulcastTarget",
             "deleteSimulcastTarget"}
IdParamsOps == {"update", "createPlaybackId", "createSimulcastTarget",
                "updateEmbeddedSubtitles"}
ParamsOps == {"create", "list"}
Ops == OneIdOps \cup TwoIdOps \cup IdParamsOps \cup ParamsOps

\* The methods declared `async`: their promise is a new one that follows
\* whatever the body returns or throws.
AsyncOps == {"update", "updateEmbeddedSubtitles"}

\* A call: the method and its arguments; an argument the method does not
\* take is left undefined.
Call(op, liveStreamId, id2, params) ==
  [op |-> op, liveStreamId |-> liveStreamId, id2 |-> id2, params |-> params]

Invocation(inp) ==
  CASE inp.op = "create" -> create(inp.params)
    [] inp.op = "update" -> update(inp.liveStreamId, inp.params)
    [] inp.op = "del" -> del(inp.liveStreamId)
    [] inp.op = "get" -> get(inp.liveStreamId)
    [] inp.op = "list" -> list(inp.params)
    [] inp.op = "signalComplete" -> signalComplete(inp.liveStreamId)
    [] inp.op = "resetStreamKey" -> resetStreamKey(inp.liveStreamId)
    [] inp.op = "createPlaybackId" -> createPlaybackId(inp.liveStreamId, inp.params)
    [] inp.op = "deletePlaybackId" -> deletePlaybackId(inp.liveStreamId, inp.id2)
    [] inp.op = "playbackId" -> playbackId(inp.liveStreamId, inp.id2)
    [] inp.op = "createSimulcastTarget" ->
         createSimulcastTarget(inp.liveStreamId, inp.params)
    [] inp.op = "getSimulcastTarget" -> getSimulcastTarget(inp.liveStreamId, inp.id2)
    [] inp.op = "deleteSimulcastTarget" ->
         deleteSimulcastTarget(inp.liveStreamId, inp.id2)
    [] inp.op = "updateEmbeddedSubtitles" ->
         updateEmbeddedSubtitles(inp.liveStreamId, inp.params)
    [] inp.op = "disable" -> disable(inp.liveStreamId)
    [] inp.op = "enable" -> enable(inp.liveStreamId)

\* The calls whose arguments come from the given sets.
CallsOver(ids, ids2, ps) ==
  {Call(op, id, Undefined, Undefined) : op \in OneIdOps, id \in ids}
    \cup {Call(op, id, id2, Undefined) : op \in TwoIdOps, id \in ids, id2 \in ids2}
    \cup {Call(op, id, Undefined, p) : op \in IdParamsOps, id \in ids, p \in ps}
    \cup {Call(op, Undefined, Undefined, p) : op \in ParamsOps, p \in ps}

(***************************************************************************)
(* Bounds and input sets                                                   *)
(***************************************************************************)
\* Calls that may be in flight at once under Spec.
MaxCalls == 2
Slots == 1..MaxCalls
\* SpecArgs compares the requests of two calls.
PairSlots == {1, 2}
\* SpecHistory compares the requests of two calls with a third call made
\* before or between them.
HistorySlots == {1, 2, 3}
AllSlots == Slots \cup PairSlots \cup HistorySlots

\* Arguments under Spec: a few of each kind, any number of calls.
SomeIds == {Str(""), Str("a")}
SomeIds2 == {Str("b")}
SomeParams == {Undefined, Obj(Str("rtmp://x"))}
SomeCalls == CallsOver(SomeIds, SomeIds2, SomeParams)

\* Arguments under SpecArgs: missing, empty, plain and slash-carrying
\* identifiers; missing, null, url-less and complete parameters objects.
ArgIds == {Undefined, Str(""), Str("a"), Str("b"), Str("a/playback-ids/b")}
ArgIds2 == {Undefined, Str(""), Str("a"), Str("b")}
ArgParams == {Undefined, Null, Obj(Undefined), Obj(Str("")), Obj(Str("rtmp://x"))}
ArgCalls == CallsOver(ArgIds, ArgIds2, ArgParams)

\* Arguments under SpecHistory: two live streams, every operation.
HistoryIds == {Str("a"), Str("b")}
HistoryIds2 == {Str("b")}
HistoryParams == {Obj(Str("rtmp://x"))}
HistoryCalls == CallsOver(HistoryIds, HistoryIds2, HistoryParams)

\* What the transport may answer.
Responses == {[t |-> "response", data |-> "ok"]}
TransportErrors == {Error("Request failed with status code 404")}

(***************************************************************************)
(* State                                                                   *)
(***************************************************************************)

NoCall == Call("none", Undefined, Undefined, Undefined)
Idle == [input |-> NoCall, state |-> "idle", value |-> Undefined, req |-> 0]

Init ==
  /\ calls = [c \in AllSlots |-> Idle]
  /\ requests = <<>>

\* The promise a caller holds once the method has returned.
Returned(c, inp, m, base) ==
  CASE m.ret.kind = "transport" ->
         [input |-> inp, state |-> "pending", value |-> Undefined,
          req |-> base + m.ret.of]
    [] m.ret.kind = "rejected" ->
         [input |-> inp, state |-> "rejected", value |-> m.ret.error, req |-> 0]
    [] m.ret.kind = "thrown" ->
         [input |-> inp,
          state |-> IF inp.op \in AsyncOps THEN "rejected" ELSE "threw",
          value |-> m.ret.error, req |-> 0]

\* The transport's record of a request handed to it by the call in slot c.
Received(c, r) ==
  [verb |-> r.verb, path |-> r.path, arg |-> r.arg, by |-> c,
   state |-> "pending", value |-> Undefined]

\* A caller invokes a method: the body runs to its return in one step.
Invoke(c, inp) ==
  /\ calls[c].state = "idle"
  /\ \A d \in AllSlots : d < c => calls[d].state # "idle"
  /\ LET m == Invocation(inp)
     IN /\ requests' = requests \o [k \in 1..Len(m.sent) |-> Received(c, m.sent[k])]
        /\ calls' = [calls EXCEPT ![c] = Returned(c, inp, m, Len(requests))]

\* Faulty variant: every plain call waiting on the transport shares the
\* promise of whichever request settles.
SamePromiseShared(i) ==
  {c \in AllSlots : calls[c].req # 0 /\ calls[c].state = "pending"
                      /\ calls[c].input.op \notin AsyncOps}

\* The calls whose promise is the transport's promise for request i itself.
SamePromise(i) ==
  {c \in AllSlots : calls[c].req = i /\ calls[c].input.op \notin AsyncOps}

TransportSettle(i, state, value) ==
  /\ i \in 1..Len(requests)
  /\ requests[i].state = "pending"
  /\ requests' = [requests EXCEPT ![i].state = state, ![i].value = value]
  /\ calls' = [c \in AllSlots |->
                 IF c \in SamePromise(i)
                 THEN [calls[c] EXCEPT !.state = state, !.value = value]
                 ELSE calls[c]]

TransportResolve(i, v) == TransportSettle(i, "fulfilled", v)
TransportReject(i, e) == TransportSettle(i, "rejected", e)

\* Faulty variant: a failure of the transport is replaced by a new error.
AdoptWrapped(c) ==
  /\ calls[c].input.op \in AsyncOps
  /\ calls[c].state = "pending"
  /\ calls[c].req \in 1..Len(requests)
  /\ requests[calls[c].req].state # "pending"
  /\ calls' = [calls EXCEPT
                 ![c].state = requests[calls[c].req].state,
                 ![c].value = IF requests[calls[c].req].state = "rejected"
                              THEN Error("update failed")
                              ELSE requests[calls[c].req].value]
  /\ UNCHANGED requests

\* Faulty variant: a failed request is sent again.
AdoptRetry(c) ==
  /\ calls[c].input.op \in AsyncOps
  /\ calls[c].state = "pending"
  /\ calls[c].req \in 1..Len(requests)
  /\ requests[calls[c].req].state # "pending"
  /\ IF /\ requests[calls[c].req].state = "rejected"
        /\ Cardinality({i \in 1..Len(requests) : requests[i].by = c}) < 2
     THEN /\ requests' = Append(requests,
                                [requests[calls[c].req] EXCEPT !.state = "pending",
                                                               !.value = Undefined])
          /\ calls' = [calls EXCEPT ![c].req = Len(requests) + 1]
     ELSE /\ calls' = [calls EXCEPT ![c].state = requests[calls[c].req].state,
                                    ![c].value = requests[calls[c].req].value]
          /\ UNCHANGED requests

\* The promise of an async method follows the transport promise its body
\* returned, one step after that promise has settled.
Adopt(c) ==
  /\ calls[c].input.op \in AsyncOps
  /\ calls[c].state = "pending"
  /\ calls[c].req \in 1..Len(requests)
  /\ requests[calls[c].req].state # "pending"
  /\ calls' = [calls EXCEPT ![c].state = requests[calls[c].req].state,
                            ![c].value = requests[calls[c].req].value]
  /\ UNCHANGED requests

Next ==
  \/ \E c \in Slots, inp \in SomeCalls : Invoke(c, inp)
  \/ \E i \in 1..Len(requests), v \in Responses : TransportResolve(i, v)
  \/ \E i \in 1..Len(requests), e \in TransportErrors : TransportReject(i, e)
  \/ \E c \in Slots : Adopt(c)

Spec == Init /\ [][Next]_vars

NextArgs ==
  \/ \E c \in PairSlots, inp \in ArgCalls : Invoke(c, inp)
  \/ \E i \in 1..Len(requests), v \in Responses : TransportResolve(i, v)
  \/ \E i \in 1..Len(requests), e \in TransportErrors : TransportReject(i, e)
  \/ \E c \in PairSlots : Adopt(c)

SpecArgs == Init /\ [][NextArgs]_vars

NextHistory ==
  \/ \E c \in HistorySlots, inp \in HistoryCalls : Invoke(c, inp)
  \/ \E i \in 1..Len(requests), v \in Responses : TransportResolve(i, v)
  \/ \E i \in 1..Len(requests), e \in TransportErrors : TransportReject(i, e)
  \/ \E c \in HistorySlots : Adopt(c)

SpecHistory == Init /\ [][NextHistory]_vars

(***************************************************************************)
(* Vocabulary of the properties                                            *)
(***************************************************************************)
Invoked(c) == calls[c].state # "idle"
\* The requests the transport received from the call in slot c.
ReqsBy(c) == {i \in 1..Len(requests) : requests[i].by = c}
\* The call that issued request i.
Issuer(i) == calls[requests[i].by].input

IdOps == OneIdOps \cup TwoIdOps \cup IdParamsOps
RequiredParamsOps == {"create", "update", "createPlaybackId", "createSimulcastTarget",
                      "updateEmbeddedSubtitles"}
SeparateCheckOps == {"createPlaybackId", "deletePlaybackId", "playbackId",
                     "createSimulcastTarget", "getSimulcastTarget",
                     "deleteSimulcastTarget"}

Missing(v) == v \in {Undefined, Null, Str("")}

\* The message each operation gives for a missing live stream id.
LiveStreamIdMessage(op) ==
  CASE op = "update" -> "assetId and params are required."
    [] op = "del" -> "A live stream ID is required to delete a live stream"
    [] op = "get" -> "A live stream ID is required to get a live stream"
    [] op = "signalComplete" ->
         "A live stream ID is required to signal a stream is complete"
    [] op = "resetStreamKey" -> "A live stream ID is required to reset a live stream key"
    [] op = "createPlaybackId" ->
         "A live stream ID is required to create a live stream playback ID"
    [] op = "deletePlaybackId" ->
         "A live stream ID is required to delete a live stream playback ID"
    [] op = "playbackId" -> "A live stream ID is required"
    [] op = "createSimulcastTarget" ->
         "A live stream ID is required to create a simulcast target"
    [] op = "getSimulcastTarget" ->
         "A live stream ID is required to get a simulcast target"
    [] op = "deleteSimulcastTarget" ->
         "A live stream ID is required to delete a simulcast target"
    [] op = "updateEmbeddedSubtitles" -> "liveStreamId and params are required."
    [] op = "disable" -> "A live stream ID is required to disable a live stream"
    [] op = "enable" -> "A live stream ID is required to enable a live stream"

\* The message each two-argument operation gives for its second argument.
SecondArgMessage(op) ==
  CASE op = "createPlaybackId" ->
         "A playback policy is required to create a live stream playback ID"
    [] op = "deletePlaybackId" ->
         "A live stream playback ID is required to delete a live stream playback ID"
    [] op = "playbackId" -> "A playback ID is required"
    [] op = "createSimulcastTarget" -> "A url is required to create a simulcast target"
    [] op = "getSimulcastTarget" ->
         "A simulcast target ID is required to get a simulcast target"
    [] op = "deleteSimulcastTarget" ->
         "A simulcast target ID is required to delete a simulcast target"

\* Whether the second argument of a two-argument operation fails its check.
SecondArgMissing(inp) ==
  CASE inp.op = "createPlaybackId" -> Missing(inp.params)
    [] inp.op = "createSimulcastTarget" ->
         Missing(inp.params) \/ Missing(UrlOf(inp.params))
    [] OTHER -> Missing(inp.id2)

\* Every identifier the call passes is present and non-empty.
IdsPresent(inp) ==
  /\ inp.op \in IdOps => ~Missing(inp.liveStreamId)
  /\ inp.op \in TwoIdOps => ~Missing(inp.id2)

\* The parameters object an operation requires is present (and, for a
\* simulcast target, carries a url).
ParamsPresent(inp) ==
  /\ inp.op \in RequiredParamsOps => ~Missing(inp.params)
  /\ inp.op = "createSimulcastTarget" => ~Missing(UrlOf(inp.params))

HasSlash(v) == \E k \in 1..Len(v.s) : SubSeq(v.s, k, k) = "/"

\* Every identifier the call passes is a non-empty string without '/'.
IdsPlain(inp) ==
  /\ IdsPresent(inp)
  /\ inp.op \in IdOps => ~HasSlash(inp.liveStreamId)
  /\ inp.op \in TwoIdOps => ~HasSlash(inp.id2)

\* The endpoint table: verb and path of each operation.
ExpectedVerb(op) ==
  CASE op \in {"create", "resetStreamKey", "createPlaybackId", "createSimulcastTarget"}
         -> "POST"
    [] op \in {"list", "get", "playbackId", "getSimulcastTarget"} -> "GET"
    [] op = "update" -> "PATCH"
    [] op \in {"del", "deletePlaybackId", "deleteSimulcastTarget"} -> "DELETE"
    [] op \in {"signalComplete", "updateEmbeddedSubtitles", "disable", "enable"} -> "PUT"

ExpectedPath(inp) ==
  LET P == "/video/v1/live-streams"
      id == inp.liveStreamId.s
  IN CASE inp.op \in {"create", "list"} -> P
       [] inp.op \in {"update", "del", "get"} -> P \o "/" \o id
       [] inp.op = "signalComplete" -> P \o "/" \o id \o "/complete"
       [] inp.op = "resetStreamKey" -> P \o "/" \o id \o "/reset-stream-key"
       [] inp.op = "createPlaybackId" -> P \o "/" \o id \o "/playback-ids"
       [] inp.op \in {"deletePlaybackId", "playbackId"} ->
            P \o "/" \o id \o "/playback-ids/" \o inp.id2.s
       [] inp.op = "createSimulcastTarget" -> P \o "/" \o id \o "/simulcast-targets"
       [] inp.op \in {"getSimulcastTarget", "deleteSimulcastTarget"} ->
            P \o "/" \o id \o "/simulcast-targets/" \o inp.id2.s
       [] inp.op = "updateEmbeddedSubtitles" -> P \o "/" \o id \o "/embedded-subtitles"
       [] inp.op = "disable" -> P \o "/" \o id \o "/disable"
       [] inp.op = "enable" -> P \o "/" \o id \o "/enable"

(***************************************************************************)
(* Properties                                                              *)
(***************************************************************************)

\* C1: a call of an operation that takes a live stream id, made with the id
\* missing or empty, is rejected with that operation's message and the
\* transport has received no request from it, whatever its other arguments.
C1_MissingIdRejected ==
  \A c \in AllSlots :
    (Invoked(c) /\ calls[c].input.op \in IdOps /\ Missing(calls[c].input.liveStreamId))
      => /\ calls[c].state = "rejected"
         /\ calls[c].value = Error(LiveStreamIdMessage(calls[c].input.op))
         /\ ReqsBy(c) = {}

C1_Witness ==
  \E c, d \in AllSlots :
    /\ calls[c].input.op = "update" /\ calls[c].input.liveStreamId = Undefined
    /\ calls[c].input.params = Obj(Str("rtmp://x")) /\ calls[c].state = "rejected"
    /\ calls[d].input.op = "deleteSimulcastTarget" /\ calls[d].input.liveStreamId = Str("")
    /\ calls[d].input.id2 = Str("b") /\ calls[d].state = "rejected"

\* C2 as stated: a call whose identifier arguments are all non-empty has
\* issued exactly one request, whatever its parameters object.
C2_OneRequestAnyParams ==
  \A c \in AllSlots :
    (Invoked(c) /\ IdsPresent(calls[c].input)) => Cardinality(ReqsBy(c)) = 1

\* C2 amended: a call whose identifier arguments are all non-empty and whose
\* required parameters object is present (with a url for
\* createSimulcastTarget) has issued exactly one request.
C2_OneRequestValidArgs ==
  \A c \in AllSlots :
    (Invoked(c) /\ IdsPresent(calls[c].input) /\ ParamsPresent(calls[c].input))
      => Cardinality(ReqsBy(c)) = 1

C2_Witness ==
  \E c, d \in AllSlots :
    /\ calls[c].input = Call("createSimulcastTarget", Str("a"), Undefined,
                             Obj(Str("rtmp://x")))
    /\ Cardinality(ReqsBy(c)) = 1
    /\ calls[d].input = Call("list", Undefined, Undefined, Undefined)
    /\ Cardinality(ReqsBy(d)) = 1

\* C3: every request the transport has received carries the verb and the
\* path of the endpoint table for the operation that issued it, with the
\* caller's identifiers interpolated verbatim.
C3_VerbAndPath ==
  \A i \in 1..Len(requests) :
    /\ requests[i].verb = ExpectedVerb(Issuer(i).op)
    /\ requests[i].path = ExpectedPath(Issuer(i))

C3_Witness ==
  \E i, j \in 1..Len(requests) :
    /\ Issuer(i).op = "deletePlaybackId"
    /\ requests[i].path = "/video/v1/live-streams/a/playback-ids/b"
    /\ requests[i].verb = "DELETE"
    /\ Issuer(j).op = "signalComplete"
    /\ requests[j].path = "/video/v1/live-streams/a/playback-ids/b/complete"

\* C4: a call of an operation that requires a parameters object, made with
\* the object missing, is rejected with an error message and the transport
\* has received no request from it.
C4_MissingParamsRejected ==
  \A c \in AllSlots :
    (/\ Invoked(c)
     /\ calls[c].input.op \in RequiredParamsOps
     /\ calls[c].input.params \in {Undefined, Null})
      => /\ calls[c].state = "rejected"
         /\ calls[c].value.t = "error"
         /\ ReqsBy(c) = {}

\* C9: in the operations that check their two arguments separately the live
\* stream id is checked first: a missing id gives the live-stream-id message
\* whatever the second argument, and the second argument's message is given
\* exactly when the id is present and the second argument is missing.
C9_LiveStreamIdFirst ==
  \A c \in AllSlots :
    (Invoked(c) /\ calls[c].input.op \in SeparateCheckOps)
      => LET inp == calls[c].input
         IN /\ LiveStreamIdMessage(inp.op) # SecondArgMessage(inp.op)
            /\ Missing(inp.liveStreamId) =>
                 calls[c].value = Error(LiveStreamIdMessage(inp.op))
            /\ calls[c].value = Error(SecondArgMessage(inp.op)) <=>
                 (~Missing(inp.liveStreamId) /\ SecondArgMissing(inp))

C9_Witness ==
  \E c, d \in AllSlots :
    /\ calls[c].input = Call("playbackId", Str(""), Undefined, Undefined)
    /\ calls[c].value = Error("A live stream ID is required")
    /\ calls[d].input = Call("createSimulcastTarget", Str("b"), Undefined,
                             Obj(Str("")))
    /\ calls[d].value = Error("A url is required to create a simulcast target")

\* C10: among requests whose identifiers are non-empty and free of '/', the
\* verb and path determine the operation and its identifiers.
C10_RequestDeterminesEndpoint ==
  \A i, j \in 1..Len(requests) :
    (/\ IdsPlain(Issuer(i)) /\ IdsPlain(Issuer(j))
     /\ requests[i].verb = requests[j].verb
     /\ requests[i].path = requests[j].path)
      => /\ Issuer(i).op = Issuer(j).op
         /\ Issuer(i).liveStreamId = Issuer(j).liveStreamId
         /\ Issuer(i).id2 = Issuer(j).id2

C10_Witness ==
  \E i, j \in 1..Len(requests) :
    /\ i # j
    /\ IdsPlain(Issuer(i)) /\ IdsPlain(Issuer(j))
    /\ Issuer(i).op = "getSimulcastTarget"
    /\ requests[i].verb = requests[j].verb
    /\ requests[i].path = requests[j].path

\* The requests the transport received from the call in slot c, in order,
\* as the method handed them over.
SentBy(c) ==
  LET mine == SelectSeq(requests, LAMBDA r : r.by = c)
  IN [k \in 1..Len(mine) |->
        [verb |-> mine[k].verb, path |-> mine[k].path, arg |-> mine[k].arg]]

\* C5: the outcome of a call that issued a request is the outcome of that
\* request: same state and same value, nothing wrapped or substituted; the
\* promise of a plain method is settled with the request, the promise of an
\* async method is pending until it takes the request's outcome.
C5_OutcomeIsTransportOutcome ==
  \A c \in AllSlots :
    calls[c].req # 0
      => /\ calls[c].req \in ReqsBy(c)
         /\ LET r == requests[calls[c].req]
            IN /\ calls[c].state \in {"pending", r.state}
               /\ calls[c].state # "pending" => calls[c].value = r.value
               /\ calls[c].input.op \notin AsyncOps => calls[c].state = r.state

C5_Witness ==
  \E c, d \in AllSlots :
    /\ calls[c].input.op = "update" /\ calls[c].state = "rejected"
    /\ calls[c].value \in TransportErrors
    /\ calls[d].input.op = "get" /\ calls[d].state = "fulfilled"
    /\ calls[d].value \in Responses

\* C6: over the lifetime of a call the transport receives at most one
\* request from it, and none after one of its requests has failed.
C6_NoRetry ==
  \A c \in AllSlots :
    /\ Cardinality(ReqsBy(c)) <= 1
    /\ \A i, j \in ReqsBy(c) : requests[i].state = "rejected" => j <= i

C6_Witness ==
  \E c, d \in AllSlots :
    /\ calls[c].input.op = "create" /\ calls[c].state = "rejected"
    /\ Cardinality(ReqsBy(c)) = 1
    /\ calls[d].input.op = "updateEmbeddedSubtitles" /\ calls[d].state = "rejected"
    /\ calls[d].value \in TransportErrors
    /\ Cardinality(ReqsBy(d)) = 1

\* C7: two requests issued by calls of the same operation with the same
\* identifiers carry the same verb and path, whatever was called and
\* whatever the transport answered before or between them.
C7_SameArgsSamePath ==
  \A i, j \in 1..Len(requests) :
    (/\ Issuer(i).op = Issuer(j).op
     /\ Issuer(i).liveStreamId = Issuer(j).liveStreamId
     /\ Issuer(i).id2 = Issuer(j).id2)
      => /\ requests[i].verb = requests[j].verb
         /\ requests[i].path = requests[j].path

\* Three calls in a row: a call, then a call of another operation on another
\* live stream, then the first call again; the transport failed the first
\* request and answered the one in between before the last was sent on.
C7_Witness ==
  \E i, j \in 1..Len(requests) :
    /\ requests[i].by = 1 /\ requests[j].by = 3
    /\ calls[1].input = Call("resetStreamKey", Str("b"), Undefined, Undefined)
    /\ calls[2].input = Call("playbackId", Str("a"), Str("b"), Undefined)
    /\ calls[3].input = calls[1].input
    /\ i < calls[2].req /\ calls[2].req < j
    /\ requests[i].state = "rejected"
    /\ requests[calls[2].req].state = "fulfilled"
    /\ requests[j].state = "fulfilled"
    /\ requests[i].verb = requests[j].verb
    /\ requests[i].path = requests[j].path
    /\ requests[i].path # requests[calls[2].req].path

\* C8: whatever else is in flight, a call has handed the transport exactly
\* the requests its method hands over on its own arguments, and its outcome
\* is its validation error or the outcome of its own request.
C8_CallsIndependent ==
  \A c \in AllSlots :
    Invoked(c)
      => LET alone == Invocation(calls[c].input)
         IN /\ SentBy(c) = alone.sent
            /\ alone.ret.kind = "transport" =>
                 /\ calls[c].req \in ReqsBy(c)
                 /\ calls[c].state \in {"pending", requests[calls[c].req].state}
                 /\ calls[c].state # "pending" =>
                      calls[c].value = requests[calls[c].req].value
            /\ alone.ret.kind # "transport" =>
                 /\ calls[c].req = 0
                 /\ calls[c].state = "rejected"
                 /\ calls[c].value = alone.ret.error

C8_Witness ==
  \E c, d \in AllSlots :
    /\ c < d
    /\ calls[c].req # 0 /\ calls[d].req # 0
    /\ calls[c].state = "pending" /\ requests[calls[c].req].state = "pending"
    /\ calls[d].state = "fulfilled"
    /\ calls[c].input.op = calls[d].input.op

====
